---- MODULE Spec2Model ----
(***************************************************************************)
(* A model of aidoccli's JSDoc builder (src/jsdoc/builder.js:              *)
(* getJSDocBlocks, updateJSDocBlock, buildJSDocLines) and of the per-      *)
(* declaration steps of processFilesWithJSDoc that call it.                *)
(*                                                                         *)
(* JavaScript strings are TLA+ strings; the operators below compute the    *)
(* String/Array methods the code calls, character by character.  A TLA+    *)
(* string literal cannot contain the backtick, so the backtick character   *)
(* of the source is written as the single quote throughout (BT).  A JS     *)
(* optional value (undefined / null / missing property) is a sequence of   *)
(* length 0, a present value v is <<v>>.                                   *)
(***************************************************************************)
EXTENDS FiniteSets, Integers, Sequences, TLC

\* ------------------------------------------------------------------------
\* JavaScript String and Array methods used by the code
\* ------------------------------------------------------------------------

None == <<>>

Some(v) == <<v>>

\* the characters String.prototype.trim removes
IsWs(c) == c \in {" ", "\t", "\n", "\r"}

RECURSIVE TrimStart(_)
TrimStart(s) ==
  IF s = "" THEN ""
  ELSE IF IsWs(Head(s)) THEN TrimStart(Tail(s)) ELSE s

RECURSIVE TrimEnd(_)
TrimEnd(s) ==
  IF s = "" THEN ""
  ELSE IF IsWs(SubSeq(s, Len(s), Len(s)))
       THEN TrimEnd(SubSeq(s, 1, Len(s) - 1))
       ELSE s

\* s.trim()
Trim(s) == TrimEnd(TrimStart(s))

\* s.startsWith(p)
StartsWith(s, p) == Len(s) >= Len(p) /\ SubSeq(s, 1, Len(p)) = p

\* s.indexOf(p): 0-based index of the first occurrence, -1 when there is none
IndexOf(s, p) ==
  LET hits == {i \in 0..(Len(s) - Len(p)) : SubSeq(s, i + 1, i + Len(p)) = p}
  IN  IF hits = {} THEN -1 ELSE CHOOSE i \in hits : \A j \in hits : i <= j

\* s.includes(p)
Includes(s, p) == IndexOf(s, p) # -1

\* s.substring(n), n >= 0
Substring(s, n) == IF n >= Len(s) THEN "" ELSE SubSeq(s, n + 1, Len(s))

\* s.split(sep) for a one-character separator
RECURSIVE Split(_, _)
Split(s, sep) ==
  LET i == IndexOf(s, sep)
  IN  IF i = -1 THEN <<s>>
      ELSE <<SubSeq(s, 1, i)>> \o Split(Substring(s, i + 1), sep)

\* arr.join(sep) for an array of strings
RECURSIVE Join(_, _)
Join(arr, sep) ==
  IF arr = <<>> THEN ""
  ELSE IF Len(arr) = 1 THEN arr[1]
  ELSE arr[1] \o sep \o Join(Tail(arr), sep)

\* arr.map(f)
MapSeq(f(_), arr) == [i \in 1..Len(arr) |-> f(arr[i])]

\* the backtick character of the source
BT == "'"

FENCE == BT \o BT \o BT

\* s.replace(/```(?:javascript|typescript)?\n|\n```/g, '')
RECURSIVE StripFences(_)
StripFences(s) ==
  IF s = "" THEN ""
  ELSE IF StartsWith(s, FENCE \o "javascript\n")
       THEN StripFences(Substring(s, Len(FENCE \o "javascript\n")))
  ELSE IF StartsWith(s, FENCE \o "typescript\n")
       THEN StripFences(Substring(s, Len(FENCE \o "typescript\n")))
  ELSE IF StartsWith(s, FENCE \o "\n")
       THEN StripFences(Substring(s, Len(FENCE \o "\n")))
  ELSE IF StartsWith(s, "\n" \o FENCE)
       THEN StripFences(Substring(s, Len("\n" \o FENCE)))
  ELSE Head(s) \o StripFences(Tail(s))

\* ------------------------------------------------------------------------
\* Tag vocabulary tables
\* ------------------------------------------------------------------------

MANAGED_JSDOC_TAGS == {"param", "returns", "throws", "example", "class", "description"}

VALID_JSDOC_TAGS ==
  {"abstract", "access", "alias", "arg", "argument", "async", "augments",
   "author", "borrows", "callback", "class", "classdesc", "const", "constant",
   "constructor", "constructs", "copyright", "default", "defaultvalue",
   "deprecated", "desc", "description", "enum", "event", "example", "exports",
   "external", "file", "fileoverview", "", "fires", "function", "func", "host",
   "ignore", "implements", "inheritdoc", "inner", "instance", "interface",
   "internal", "kind", "lends", "license", "listens", "member", "memberof",
   "method", "mixes", "mixin", "module", "name", "namespace", "override",
   "overrides", "package", "param", "private", "property", "prop", "protected",
   "public", "readonly", "requires", "returns", "return", "see", "since",
   "static", "summary", "super", "this", "throws", "throw", "todo", "tutorial",
   "type", "typedef", "var", "variation", "version", "virtual", "yields", "yield"}

placeholderDesc == "Description placeholder."

constructorDescPlaceholder == "Initializes a new instance of the class."

placeholderReturnsDesc == "The result of the operation."

placeholderParamDesc(param) == "The " \o param.type \o " value of " \o param.name \o "."

\* ------------------------------------------------------------------------
\* Comment Extractor: getJSDocBlocks
\* ------------------------------------------------------------------------

\* the predicate of comments.find(...)
IsJSDocComment(comment) ==
  comment.type = "CommentBlock" /\ StartsWith(comment.value, "*")

\* FindJSDocComment with the last qualifying comment selected
RECURSIVE FindJSDocComment_Last(_)
FindJSDocComment_Last(comments) ==
  IF comments = <<>> THEN None
  ELSE IF IsJSDocComment(comments[Len(comments)]) THEN Some(comments[Len(comments)])
  ELSE FindJSDocComment_Last(SubSeq(comments, 1, Len(comments) - 1))

\* comments.find(pred): the first element that satisfies pred, None if none does
RECURSIVE FindJSDocComment(_)
FindJSDocComment(comments) ==
  IF comments = <<>> THEN None
  ELSE IF IsJSDocComment(Head(comments)) THEN Some(Head(comments))
  ELSE FindJSDocComment(Tail(comments))

\* the callback of .map(...): trim, strip one leading '*', trim again
CleanLine(line) ==
  LET t == Trim(line)
  IN  IF StartsWith(t, "*") THEN Trim(Substring(t, 1)) ELSE t

\* lines.shift() when the first element is ''
DropLeadingBlank(lines) ==
  IF lines # <<>> /\ lines[1] = "" THEN Tail(lines) ELSE lines

\* lines.pop() when the last element is the end-marker remnant
DropTrailingMarker(lines) ==
  IF lines # <<>> /\ lines[Len(lines)] \in {"*/", "/"}
  THEN SubSeq(lines, 1, Len(lines) - 1)
  ELSE lines

\* the clean-up of the selected comment's text
NormalizeComment(value) ==
  DropTrailingMarker(DropLeadingBlank(MapSeq(CleanLine, Split(value, "\n"))))

\* comments is None (null/undefined) or Some(array); the result is None
\* (null) or Some(array of lines)
getJSDocBlocks(comments) ==
  IF comments = None \/ comments[1] = <<>> THEN None
  ELSE LET jsdocComment == FindJSDocComment(comments[1])
       IN  IF jsdocComment = None THEN None
           ELSE Some(NormalizeComment(jsdocComment[1].value))

\* ------------------------------------------------------------------------
\* Reconciliation Engine: updateJSDocBlock
\* ------------------------------------------------------------------------

\* a JS value used as a condition: undefined, null and '' are falsy
Truthy(opt) == opt # None /\ opt[1] # ""

\* opt?.length used as a condition
HasLength(opt) == opt # None /\ Len(opt[1]) > 0

\* opt?.forEach(...): the elements visited
Elems(opt) == IF opt = None THEN <<>> ELSE opt[1]

\* arr.find(pred) on an array that may be undefined (arr?.find)
FindFirst(arr, pred(_)) ==
  LET hits == {i \in 1..Len(arr) : pred(arr[i])}
  IN  IF hits = {} THEN None
      ELSE Some(arr[CHOOSE i \in hits : \A j \in hits : i <= j])

\* the keys under which updateJSDocBlock files an existing tag line
TagKeys == MANAGED_JSDOC_TAGS \cup {"other"}

\* existingTags.get(key): the entries filed under key, <<>> when the Map has
\* no such key (a key is only ever set together with its first entry)
MapGet(existingTags, key) ==
  IF key \in DOMAIN existingTags THEN existingTags[key] ELSE <<>>

\* existingTags.has(key)
MapHas(existingTags, key) == MapGet(existingTags, key) # <<>>

\* existingTags.size
MapSize(existingTags) ==
  Cardinality({k \in DOMAIN existingTags : existingTags[k] # <<>>})

\* the tag name and content the parse loop computes for a trimmed '@' line
TagNameOf(trimmedLine) ==
  LET parts == Split(trimmedLine, " ")
      tagName == Substring(parts[1], 1)
  IN  IF tagName = "return" THEN "returns" ELSE tagName

TagContentOf(trimmedLine) ==
  LET parts == Split(trimmedLine, " ")
  IN  Trim(Join(Tail(parts), " "))

\* never assigned after its declaration in updateJSDocBlock
foundMainDescription == FALSE

\* one iteration of the parse loop
ParseLine(acc, line) ==
  LET trimmedLine == Trim(line)
  IN  IF StartsWith(trimmedLine, "@")
      THEN LET tagName == TagNameOf(trimmedLine)
               entry == [originalLine |-> trimmedLine,
                         content |-> TagContentOf(trimmedLine)]
               key == IF tagName \in MANAGED_JSDOC_TAGS THEN tagName ELSE "other"
           IN  [acc EXCEPT
                  !.existingTags[key] = Append(@, entry),
                  !.warnings = IF tagName \notin MANAGED_JSDOC_TAGS
                                  /\ tagName \notin VALID_JSDOC_TAGS
                               THEN Append(@, tagName) ELSE @]
      ELSE IF trimmedLine # "" /\ ~foundMainDescription
      THEN [acc EXCEPT
              !.mainDescription = IF @ = "" THEN trimmedLine
                                  ELSE @ \o "\n" \o trimmedLine]
      ELSE acc

RECURSIVE ParseFrom(_, _)
ParseFrom(acc, lines) ==
  IF lines = <<>> THEN acc
  ELSE ParseFrom(ParseLine(acc, Head(lines)), Tail(lines))

\* the parse loop over existingJSDocLines
ParseExisting(existingJSDocLines) ==
  ParseFrom([existingTags |-> [k \in TagKeys |-> <<>>],
             mainDescription |-> "",
             warnings |-> <<>>],
            existingJSDocLines)

\* 1. Main Description
DescriptionSection(mainDescription, inferredJSDoc) ==
  LET existingMainDescriptionIsPlaceholder ==
        mainDescription = "" \/ Includes(mainDescription, placeholderDesc)
  IN  IF Truthy(inferredJSDoc.description)
         /\ inferredJSDoc.description[1] # placeholderDesc
      THEN IF ~existingMainDescriptionIsPlaceholder
           THEN <<mainDescription>>
           ELSE <<inferredJSDoc.description[1]>>
      ELSE IF mainDescription # "" THEN <<mainDescription>>
      ELSE <<>>

\* the blank line pushed after the description
BlankSection(updatedLines, existingTags, inferredJSDoc) ==
  IF Len(updatedLines) > 0
     /\ (\/ HasLength(inferredJSDoc.params)
         \/ (inferredJSDoc.returns # None /\ inferredJSDoc.returns[1].type # "")
         \/ HasLength(inferredJSDoc.throws)
         \/ HasLength(inferredJSDoc.examples)
         \/ MapSize(existingTags) > 0)
  THEN <<"">>
  ELSE <<>>

\* 2. Class-specific tags
ClassSection(existingTags, inferredJSDoc) ==
  IF Truthy(inferredJSDoc.name)
  THEN (IF ~MapHas(existingTags, "class")
        THEN <<"@class">>
        ELSE <<MapGet(existingTags, "class")[1].originalLine>>)
       \o
       (IF Truthy(inferredJSDoc.extendsClass)
        THEN LET existingExtends ==
                   IF MapHas(existingTags, "augments")
                   THEN MapGet(existingTags, "augments")
                   ELSE MapGet(existingTags, "extends")
             IN  IF existingExtends = <<>>
                    \/ \E i \in 1..Len(existingExtends) :
                         existingExtends[i].content # inferredJSDoc.extendsClass[1]
                 THEN <<"@augments " \o inferredJSDoc.extendsClass[1]>>
                 ELSE <<existingExtends[1].originalLine>>
        ELSE <<>>)
  ELSE <<>>

\* the line pushed for one constructorParams entry
ConstructorParamLine(existingTags, param) ==
  LET prefix == "{" \o param.type \o "} " \o param.name
      IsFor(p) == StartsWith(p.content, prefix)
      existingParam == FindFirst(MapGet(existingTags, "param"), IsFor)
  IN  IF existingParam # None
         /\ existingParam[1].content # placeholderParamDesc(param)
      THEN "@param " \o prefix \o " "
             \o Trim(Substring(existingParam[1].content,
                               IndexOf(existingParam[1].content, param.name)
                                 + Len(param.name)))
      ELSE "@param " \o prefix \o " - " \o param.description

\* 3. Constructor specific tags
ConstructorSection(existingTags, inferredJSDoc) ==
  IF Truthy(inferredJSDoc.constructorDescription)
  THEN LET IsHuman(tag) == tag.content # constructorDescPlaceholder
           existingConsDesc ==
             FindFirst(MapGet(existingTags, "constructor"), IsHuman)
           ParamLine(param) == ConstructorParamLine(existingTags, param)
       IN  (IF existingConsDesc # None
            THEN <<"@constructor " \o existingConsDesc[1].content>>
            ELSE IF inferredJSDoc.constructorDescription[1] # constructorDescPlaceholder
            THEN <<"@constructor " \o inferredJSDoc.constructorDescription[1]>>
            ELSE IF MapHas(existingTags, "constructor")
            THEN <<MapGet(existingTags, "constructor")[1].originalLine>>
            ELSE <<>>)
           \o MapSeq(ParamLine, Elems(inferredJSDoc.constructorParams))
  ELSE <<>>

\* ParamLine with the existing entry kept whatever its description is
ParamLine_KeepsExisting(existingTags, param) ==
  LET prefix == "{" \o param.type \o "} " \o param.name
      IsFor(p) == Includes(p.content, prefix)
      existingParam == FindFirst(MapGet(existingTags, "param"), IsFor)
  IN  IF existingParam # None
      THEN existingParam[1].originalLine
      ELSE "@param " \o prefix \o " - " \o param.description

\* the line pushed for one params entry
ParamLine(existingTags, param) ==
  LET prefix == "{" \o param.type \o "} " \o param.name
      IsFor(p) == Includes(p.content, prefix)
      existingParam == FindFirst(MapGet(existingTags, "param"), IsFor)
      isExistingParamPlaceholder ==
        existingParam # None
          /\ Includes(existingParam[1].content, placeholderParamDesc(param))
  IN  IF existingParam # None /\ ~isExistingParamPlaceholder
      THEN LET afterName ==
                 Trim(Substring(existingParam[1].content,
                                IndexOf(existingParam[1].content, param.name)
                                  + Len(param.name)))
               originalDescription ==
                 IF StartsWith(afterName, "-")
                 THEN Trim(Substring(afterName, 1))
                 ELSE afterName
           IN  "@param " \o prefix \o " - " \o originalDescription
      ELSE "@param " \o prefix \o " - " \o param.description

\* ParamsSection with the parameters that have no existing entry left out
ParamsSection_MatchedOnly(existingTags, inferredJSDoc) ==
  LET Line(param) == ParamLine(existingTags, param)
      Matched(param) ==
        \E i \in 1..Len(MapGet(existingTags, "param")) :
          Includes(MapGet(existingTags, "param")[i].content,
                   "{" \o param.type \o "} " \o param.name)
  IN  MapSeq(Line, SelectSeq(Elems(inferredJSDoc.params), Matched))

\* 4. Parameters
ParamsSection(existingTags, inferredJSDoc) ==
  LET Line(param) == ParamLine(existingTags, param)
  IN  MapSeq(Line, Elems(inferredJSDoc.params))

\* 5. Returns
ReturnsSection(existingTags, inferredJSDoc) ==
  IF inferredJSDoc.returns # None
     /\ inferredJSDoc.returns[1].type # ""
     /\ inferredJSDoc.returns[1].type # "void"
  THEN LET IsHuman(tag) == tag.content # placeholderReturnsDesc
           existingReturns == FindFirst(MapGet(existingTags, "returns"), IsHuman)
       IN  IF existingReturns # None
              /\ existingReturns[1].content # ""
              /\ existingReturns[1].content # placeholderReturnsDesc
           THEN <<"@returns {" \o inferredJSDoc.returns[1].type \o "} "
                    \o existingReturns[1].content>>
           ELSE <<"@returns {" \o inferredJSDoc.returns[1].type \o "} "
                    \o inferredJSDoc.returns[1].description>>
  ELSE <<>>

\* the line pushed for one throws entry
ThrowsLine(existingTags, thr) ==
  LET Mentions(t) == Includes(t.content, thr.description)
      existingThrow == FindFirst(MapGet(existingTags, "throws"), Mentions)
  IN  IF existingThrow = None
      THEN "@throws {Error} " \o thr.description
      ELSE existingThrow[1].originalLine

\* 6. Throws
ThrowsSection(existingTags, inferredJSDoc) ==
  LET Line(thr) == ThrowsLine(existingTags, thr)
  IN  MapSeq(Line, Elems(inferredJSDoc.throws))

\* the lines pushed for one examples entry (none or one)
ExampleLines(existingTags, example) ==
  LET cleanedExample == Trim(StripFences(example))
      existing == MapGet(existingTags, "example")
      exists == \E i \in 1..Len(existing) :
                  Trim(StripFences(existing[i].content)) = cleanedExample
  IN  IF ~exists /\ Includes(example, FENCE)
      THEN <<"@example " \o example>>
      ELSE <<>>

\* 7. Examples
RECURSIVE ExamplesFrom(_, _)
ExamplesFrom(existingTags, examples) ==
  IF examples = <<>> THEN <<>>
  ELSE ExampleLines(existingTags, Head(examples))
         \o ExamplesFrom(existingTags, Tail(examples))

ExamplesSection(existingTags, inferredJSDoc) ==
  ExamplesFrom(existingTags, Elems(inferredJSDoc.examples))

\* OtherSection with the unrecognized tags left out
OtherSection_KnownOnly(existingTags) ==
  LET IsKnown(tag) == TagNameOf(tag.originalLine) \in VALID_JSDOC_TAGS
  IN  [i \in 1..Len(SelectSeq(MapGet(existingTags, "other"), IsKnown)) |->
         SelectSeq(MapGet(existingTags, "other"), IsKnown)[i].originalLine]

\* 8. Other existing tags (preserved)
OriginalLineOf(tag) == tag.originalLine

OtherSection(existingTags) ==
  MapSeq(OriginalLineOf, MapGet(existingTags, "other"))

\* every line pushed by the sections 2..7
ManagedSections(existingTags, inferredJSDoc) ==
  ClassSection(existingTags, inferredJSDoc)
    \o ConstructorSection(existingTags, inferredJSDoc)
    \o ParamsSection(existingTags, inferredJSDoc)
    \o ReturnsSection(existingTags, inferredJSDoc)
    \o ThrowsSection(existingTags, inferredJSDoc)
    \o ExamplesSection(existingTags, inferredJSDoc)

updateJSDocBlock(existingJSDocLines, inferredJSDoc) ==
  LET parsed == ParseExisting(existingJSDocLines)
      existingTags == parsed.existingTags
      description == DescriptionSection(parsed.mainDescription, inferredJSDoc)
  IN  description
        \o BlankSection(description, existingTags, inferredJSDoc)
        \o ManagedSections(existingTags, inferredJSDoc)
        \o OtherSection(existingTags)

\* ------------------------------------------------------------------------
\* Fresh Builder: buildJSDocLines
\* ------------------------------------------------------------------------

\* the array element lines.push(x) stores for an undefined x
UNDEFINED == "\\undefined"

\* the element lines.push(opt) stores
Pushed(opt) == IF opt = None THEN UNDEFINED ELSE opt[1]

\* CanonicalParamLine without the dash before the description
CanonicalParamLine_NoDash(param) ==
  "@param {" \o param.type \o "} " \o param.name \o " " \o param.description

CanonicalParamLine(param) ==
  "@param {" \o param.type \o "} " \o param.name \o " - " \o param.description

ExampleLine(ex) == "@example " \o ex

\* CanonicalThrowsLine without the error type
CanonicalThrowsLine_Untyped(thr) == "@throws " \o thr.description

CanonicalThrowsLine(thr) == "@throws {Error} " \o thr.description

buildJSDocLines(inferredJSDoc) ==
  IF Truthy(inferredJSDoc.name)
  THEN <<Pushed(inferredJSDoc.description), "@class">>
         \o (IF Truthy(inferredJSDoc.extendsClass)
             THEN <<"@augments " \o inferredJSDoc.extendsClass[1]>>
             ELSE <<>>)
         \o (IF HasLength(inferredJSDoc.examples)
             THEN <<"">> \o MapSeq(ExampleLine, inferredJSDoc.examples[1])
             ELSE <<>>)
         \o (IF Truthy(inferredJSDoc.constructorDescription)
             THEN <<"@constructor " \o inferredJSDoc.constructorDescription[1]>>
                    \o MapSeq(CanonicalParamLine,
                              Elems(inferredJSDoc.constructorParams))
             ELSE <<>>)
  ELSE <<Pushed(inferredJSDoc.description)>>
         \o (IF HasLength(inferredJSDoc.params)
             THEN <<"">> \o MapSeq(CanonicalParamLine, inferredJSDoc.params[1])
             ELSE <<>>)
         \o (IF inferredJSDoc.returns # None
                /\ inferredJSDoc.returns[1].type # ""
                /\ inferredJSDoc.returns[1].type # "void"
             THEN <<"@returns {" \o inferredJSDoc.returns[1].type \o "} "
                      \o inferredJSDoc.returns[1].description>>
             ELSE <<>>)
         \o (IF HasLength(inferredJSDoc.throws)
             THEN MapSeq(CanonicalThrowsLine, inferredJSDoc.throws[1])
             ELSE <<>>)
         \o (IF HasLength(inferredJSDoc.examples)
             THEN MapSeq(ExampleLine, inferredJSDoc.examples[1])
             ELSE <<>>)

\* ------------------------------------------------------------------------
\* processFilesWithJSDoc: the steps taken for one collected declaration
\* ------------------------------------------------------------------------

\* a JS array used as a condition: null is falsy, every array is truthy
IsPresent(opt) == opt # None

\* newJSDocLines.join('\n * '): join renders an undefined element as ''
Rendered(line) == IF line = UNDEFINED THEN "" ELSE line

\* newCommentContent
CommentContent(newJSDocLines) ==
  "*\n * " \o Join(MapSeq(Rendered, newJSDocLines), "\n * ") \o "\n "

\* node.leadingComments.findIndex(...): 0 stands for -1 (indices are 1-based)
FindJSDocIndex(leadingComments) ==
  LET hits == {i \in 1..Len(leadingComments) : IsJSDocComment(leadingComments[i])}
  IN  IF hits = {} THEN 0 ELSE CHOOSE i \in hits : \A j \in hits : i <= j

\* node.leadingComments after the new comment has been put in place
ReplaceComment(leadingCommentsOpt, newComment) ==
  LET leadingComments == Elems(leadingCommentsOpt)
      existingJsdocIndex == FindJSDocIndex(leadingComments)
  IN  IF existingJsdocIndex # 0
      THEN Some([leadingComments EXCEPT ![existingJsdocIndex] = newComment])
      ELSE Some(<<newComment>> \o leadingComments)

\* ------------------------------------------------------------------------
\* Inputs: the comments found on a declaration and the inferred metadata
\* ------------------------------------------------------------------------

\* bounds of the enumerated inputs
MaxLines == 2

MaxComments == 2

RECURSIVE SeqsUpTo(_, _)
SeqsUpTo(S, n) ==
  IF n = 0 THEN {<<>>}
  ELSE LET shorter == SeqsUpTo(S, n - 1)
       IN  shorter \cup {Append(q, x) : q \in {r \in shorter : Len(r) = n - 1}, x \in S}

\* lines of existing doc comments
ExistingLinePool ==
  {"A human description.",
   "Description placeholder.",
   "Note: Description placeholder.",
   "@param {string} name - The string value of name.",
   "@param {string} name - The full name.",
   "@returns {void}",
   "@return {number} The sum.",
   "@throws {Error} When it fails.",
   "@example run()",
   "@see https://example.com",
   "@custom note",
   "continued on the next line."}

\* a description, a tag and the tag's continuation line
ContinuedBlock ==
  <<"A human description.", "@see https://example.com", "continued on the next line.">>

\* the existing lines of the test 'should update placeholders but preserve
\* human-written descriptions', with the description of the pool
PlaceholderTextBlock ==
  <<"A human description.", "@param {string} name - A placeholder description.",
    "@returns {void}">>

\* the existing lines of the test 'should add new tags and preserve existing
\* unmanaged tags'
SimpleFunctionBlock == <<"A simple function.", "@see https://example.com">>

\* a doc comment whose text closes on its last line: the lines are extracted
\* as they stand, with no element after them
CompactComment(lines) == "* " \o Join(lines, "\n * ") \o " "

\* comment texts as they stand between the block-comment delimiters
BlockValues ==
  {CommentContent(ls) :
     ls \in (SeqsUpTo(ExistingLinePool, MaxLines) \ {<<>>}) \cup {ContinuedBlock}}
  \cup
  {CompactComment(ls) :
     ls \in {PlaceholderTextBlock, SimpleFunctionBlock,
             <<"A human description.",
               "@param {string} name - The string value of name.">>}}

\* short and degenerate doc comments, and a block comment that is no doc comment
SmallValues == {"*", "* ", "*\n ", "* One line. ", "*\n * @see b\n /", " plain"}

CommentBlock(value) == [type |-> "CommentBlock", value |-> value]

CommentLine(value) == [type |-> "CommentLine", value |-> value]

CommentPool ==
  {CommentLine(" A regular comment")} \cup {CommentBlock(v) : v \in SmallValues}

\* node.leadingComments
CommentInputs ==
  {None}
    \cup {Some(cs) : cs \in SeqsUpTo(CommentPool, MaxComments)}
    \cup {Some(<<CommentBlock(v)>>) : v \in BlockValues}

Meta(name, functionName, description, params, returns, throws, examples, constructorDescription, constructorParams, extendsClass) ==
  [name |-> name, functionName |-> functionName, description |-> description,
   params |-> params, returns |-> returns, throws |-> throws,
   examples |-> examples, constructorDescription |-> constructorDescription,
   constructorParams |-> constructorParams, extendsClass |-> extendsClass]

FunctionMeta(description, params, returns, throws, examples) ==
  Meta(None, Some("run"), description, params, returns, throws, examples,
       None, None, None)

ClassMeta(description, examples, constructorDescription, constructorParams, extendsClass) ==
  Meta(Some("User"), None, description, None, None, None, examples,
       constructorDescription, constructorParams, extendsClass)

ParamName == [name |-> "name", type |-> "string", description |-> "The full legal name."]

ParamId == [name |-> "id", type |-> "number", description |-> "The identifier."]

ReturnsVoid == [type |-> "void", description |-> placeholderReturnsDesc]

ReturnsPromise == [type |-> "Promise<void>", description |-> "No return value."]

FencedExample == FENCE \o "javascript\nrun()\n" \o FENCE

Descriptions == {None, Some(placeholderDesc), Some("AI text.")}

FunctionMetas ==
  {FunctionMeta(d, ps, r, Some(<<>>), Some(<<>>)) :
     d \in Descriptions,
     ps \in {Some(<<>>), Some(<<ParamName>>)},
     r \in {Some(ReturnsVoid), Some(ReturnsPromise)}}
  \cup
  {FunctionMeta(Some("AI text."), Some(<<ParamId, ParamName>>), Some(ReturnsVoid), t, e) :
     t \in {Some(<<>>), Some(<<[description |-> "When it fails."]>>)},
     e \in {Some(<<FencedExample>>), Some(<<"run()">>)}}
  \cup
  {FunctionMeta(d, None, None, None, None) : d \in Descriptions}

ClassMetas ==
  {ClassMeta(Some("Represents a user."), Some(<<>>), c, Some(<<ParamId>>), x) :
     c \in {None, Some("Creates a user.")},
     x \in {None, Some("Person")}}
  \cup
  {ClassMeta(Some("Represents a user."), Some(<<FencedExample>>), None, Some(<<>>), None)}

\* metadata that names a description and the parameters, and nothing else
DescribedParams(description, params) ==
  FunctionMeta(Some(description), Some(params), None, None, None)

\* the metadata of the two updateJSDocBlock tests that pass parameters, and of
\* the class test of buildJSDocLines without its extendsClass
TestMetas ==
  {DescribedParams("AI text", <<ParamName>>),
   DescribedParams("A simple function with more details.", <<ParamId>>),
   ClassMeta(Some("Represents a user."), None, Some("Creates a user."),
             Some(<<[name |-> "id", type |-> "string", description |-> "The user ID."]>>),
             None)}

\* a function's metadata with every field filled in
FullFunctionMeta ==
  FunctionMeta(Some("AI text."), Some(<<ParamId>>), Some(ReturnsPromise),
               Some(<<[description |-> "When it fails."]>>), Some(<<FencedExample>>))

\* what inference yields for the declaration: null, or the inferred metadata
InferenceResults ==
  {None}
    \cup {Some(m) : m \in FunctionMetas \cup ClassMetas \cup TestMetas
                            \cup {FullFunctionMeta}}

OptionSets == [onlyNew : BOOLEAN, overwriteAllJsdoc : BOOLEAN]

\* lines of the existing doc comments of classes, and of a function whose
\* parameter name occurs inside its type
ClassLinePool ==
  {"Represents a user.",
   "@class",
   "@augments Person",
   "@extends Person",
   "@constructor",
   "@constructor Builds a user by hand.",
   "@param {number} id - The number value of id.",
   "@param {number} id - The unique key.",
   "@param {number} n - How many.",
   "@custom note"}

\* node.leadingComments of those declarations
ClassCommentInputs ==
  {None, Some(<<CommentBlock("*")>>)}
    \cup {Some(<<CommentBlock(CompactComment(ls))>>) :
            ls \in SeqsUpTo(ClassLinePool, MaxLines) \ {<<>>}}

\* a parameter whose name is part of its type
ParamN == [name |-> "n", type |-> "number", description |-> "The count."]

\* what inference yields for those declarations
ClassInferenceResults ==
  {None}
    \cup {Some(m) : m \in ClassMetas}
    \cup {Some(ClassMeta(Some("Represents a user."), None,
                         Some(constructorDescPlaceholder), Some(<<ParamId>>),
                         None)),
          Some(DescribedParams("Counts.", <<ParamN>>)),
          Some(FunctionMeta(None, None, None, None, None))}

\* ------------------------------------------------------------------------
\* index.js: the helpers of the generate command
\* ------------------------------------------------------------------------

\* one console call: the method called and the text (or Error) passed
Log(text) == [method |-> "log", text |-> text]

Warn(text) == [method |-> "warn", text |-> text]

Err(text) == [method |-> "error", text |-> text]

\* the console calls of handleInitialLogging for no patterns
handleInitialLogging(opts) ==
  (IF opts.quiet /\ opts.verbose
   THEN <<Warn("Warning: --quiet and --verbose are mutually exclusive. --quiet will take precedence.")>>
   ELSE <<>>)
  \o
  (IF opts.quiet THEN <<>>
   ELSE <<Log("--- JSDoc Generator CLI ---"),
          Log("Patterns: Defaulting to all JS/TS files")>>
        \o (IF Len(opts.exclude) > 0
            THEN <<Log("Excluded Patterns: " \o Join(opts.exclude, ", "))>>
            ELSE <<>>)
        \o (IF opts.verbose THEN <<Log("Options:")>> ELSE <<>>)
        \o (IF opts.dryRun
            THEN <<Log("\n--- DRY RUN ENABLED ---"), Log("No files will be modified.")>>
            ELSE <<>>))

CompleteMessage == "\n--- JSDoc Generation Process Complete ---"

DryRunReminder == "Remember: This was a DRY RUN. No file modifications were made."

\* the console calls of handleFinalLogging
handleFinalLogging(opts) ==
  IF opts.quiet THEN <<>>
  ELSE <<Log(CompleteMessage)>>
         \o (IF opts.dryRun THEN <<Log(DryRunReminder)>> ELSE <<>>)

ErrorHeader == "\n--- An error occurred during JSDoc generation ---"

\* the console calls of handleError
handleError(err) == <<Err(ErrorHeader), Err(err)>>

\* ------------------------------------------------------------------------
\* jsdoc/builder.js: the console calls of updateJSDocBlock
\* ------------------------------------------------------------------------

\* inferredJSDoc.functionName || inferredJSDoc.name inside a template literal
DeclarationName(inferredJSDoc) ==
  IF Truthy(inferredJSDoc.functionName) THEN inferredJSDoc.functionName[1]
  ELSE IF inferredJSDoc.name = None THEN "undefined"
  ELSE inferredJSDoc.name[1]

\* the console.warn call of the parse loop for one unrecognized tag name
UnrecognizedTagWarning(tagName, inferredJSDoc) ==
  Warn("  Warning: Unrecognized JSDoc tag '@" \o tagName
         \o "' found in JSDoc for \"" \o DeclarationName(inferredJSDoc)
         \o "\". This tag will be preserved as-is.")

\* the console calls updateJSDocBlock makes, in order
updateJSDocBlockWarnings(existingJSDocLines, inferredJSDoc) ==
  LET WarningFor(tagName) == UnrecognizedTagWarning(tagName, inferredJSDoc)
  IN  MapSeq(WarningFor, ParseExisting(existingJSDocLines).warnings)

\* ------------------------------------------------------------------------
\* Inputs of a run of the generate command
\* ------------------------------------------------------------------------

\* bounds of the enumerated runs
MaxFiles == 2

MaxNodes == 2

\* the paths glob can resolve to, in the order it yields them
FileOrder == <<"a.js", "b.ts", "c.jsx", "d.tsx">>

\* files.length inside a template literal
NumberText(n) == <<"0", "1", "2", "3", "4", "5", "6", "7", "8", "9">>[n + 1]

\* the leading comments of the declarations of those files
CliCommentInputs ==
  {None,
   Some(<<CommentBlock("*")>>),
   Some(<<CommentBlock(CompactComment(SimpleFunctionBlock))>>)}

\* what inference yields for those declarations
CliInferenceResults ==
  {None,
   Some(FunctionMeta(None, None, None, None, None)),
   Some(DescribedParams("A simple function with more details.", <<ParamId>>))}

\* the options commander hands to generateAction: no --verbose, no --exclude
CliOptionSets ==
  [onlyNew : BOOLEAN, overwriteAllJsdoc : BOOLEAN, dryRun : BOOLEAN,
   quiet : BOOLEAN, verbose : {FALSE}, exclude : {<<>>}]

\* the errors the collaborators reject with
GlobError == "Error: glob failed"

ReadError == "Error: ENOENT: no such file or directory"

WriteError == "Error: EACCES: permission denied"

\* ------------------------------------------------------------------------
\* State
\* ------------------------------------------------------------------------

VARIABLES
  leadingComments,  \* node.leadingComments
  options,          \* the options the command was started with
  inference,        \* what the awaited inference call resolves to
  existingJSDoc,    \* getJSDocBlocks(node.leadingComments)
  inferredJSDoc,    \* the local of the same name
  newJSDocLines,    \* the local of the same name
  fileModified,     \* the local of the same name
  pc,               \* the position inside the loop body
  cliPc,            \* the position inside generateAction and the file loop
  files,            \* the files still to be processed
  filePath,         \* the loop variable of the file loop
  nodesLeft,        \* how many of nodesToProcess are still to be processed
  written,          \* the paths fs.writeFile has been called with
  console,          \* the console calls made so far
  exitCode,         \* process.exitCode
  error,            \* what processFilesWithJSDoc rejected with
  actionPromise     \* the state of the promise generateAction returned

nodeVars == <<leadingComments, inference, existingJSDoc, inferredJSDoc,
              newJSDocLines, fileModified, pc>>

cliVars == <<cliPc, files, filePath, nodesLeft, written, console, exitCode,
             error, actionPromise>>

vars == <<leadingComments, options, inference, existingJSDoc, inferredJSDoc,
          newJSDocLines, fileModified, pc, cliPc, files, filePath, nodesLeft,
          written, console, exitCode, error, actionPromise>>

\* the file loop stands before the body of one declaration of one file
InsideFileLoop ==
  /\ cliPc = "nodes"
  /\ files = <<>>
  /\ filePath = FileOrder[1]
  /\ nodesLeft = 0
  /\ written = <<>>
  /\ console = <<>>
  /\ exitCode = None
  /\ error = None
  /\ actionPromise = "pending"

Init ==
  /\ leadingComments \in CommentInputs
  /\ options \in OptionSets
  /\ inference \in InferenceResults
  /\ existingJSDoc = None
  /\ inferredJSDoc = None
  /\ newJSDocLines = <<>>
  /\ fileModified = FALSE
  /\ pc = "extract"
  /\ InsideFileLoop

\* const existingJSDoc = getJSDocBlocks(node.leadingComments)
Extract ==
  /\ pc = "extract"
  /\ existingJSDoc' = getJSDocBlocks(leadingComments)
  /\ pc' = "checkOnlyNew"
  /\ UNCHANGED <<leadingComments, options, inference, inferredJSDoc,
                 newJSDocLines, fileModified, cliVars>>

\* if (options.onlyNew && existingJSDoc) continue
SkipExisting ==
  /\ pc = "checkOnlyNew"
  /\ options.onlyNew /\ IsPresent(existingJSDoc)
  /\ pc' = "done"
  /\ UNCHANGED <<leadingComments, options, inference, existingJSDoc,
                 inferredJSDoc, newJSDocLines, fileModified, cliVars>>

\* Infer with options.onlyNew not consulted
Infer_IgnoresOnlyNew ==
  /\ pc = "checkOnlyNew"
  /\ inferredJSDoc' = inference
  /\ pc' = "lines"
  /\ UNCHANGED <<leadingComments, options, inference, existingJSDoc,
                 newJSDocLines, fileModified, cliVars>>

\* inferredJSDoc = await infer...(...), or it stays null
Infer ==
  /\ pc = "checkOnlyNew"
  /\ ~(options.onlyNew /\ IsPresent(existingJSDoc))
  /\ inferredJSDoc' = inference
  /\ pc' = "lines"
  /\ UNCHANGED <<leadingComments, options, inference, existingJSDoc,
                 newJSDocLines, fileModified, cliVars>>

\* if (inferredJSDoc) is false
NothingInferred ==
  /\ pc = "lines"
  /\ inferredJSDoc = None
  /\ pc' = "done"
  /\ UNCHANGED <<leadingComments, options, inference, existingJSDoc,
                 inferredJSDoc, newJSDocLines, fileModified, cliVars>>

\* Update with options.overwriteAllJsdoc not consulted
Update_IgnoresOverwrite ==
  /\ pc = "lines"
  /\ inferredJSDoc # None
  /\ IsPresent(existingJSDoc)
  /\ newJSDocLines' = updateJSDocBlock(existingJSDoc[1], inferredJSDoc[1])
  /\ console' =
       console \o updateJSDocBlockWarnings(existingJSDoc[1], inferredJSDoc[1])
  /\ pc' = "updated"
  /\ UNCHANGED <<leadingComments, options, inference, existingJSDoc,
                 inferredJSDoc, fileModified, cliPc, files, filePath,
                 nodesLeft, written, exitCode, error, actionPromise>>

\* existingJSDoc && !options.overwriteAllJsdoc ? updateJSDocBlock(...)
Update ==
  /\ pc = "lines"
  /\ inferredJSDoc # None
  /\ IsPresent(existingJSDoc) /\ ~options.overwriteAllJsdoc
  /\ newJSDocLines' = updateJSDocBlock(existingJSDoc[1], inferredJSDoc[1])
  /\ console' =
       console \o updateJSDocBlockWarnings(existingJSDoc[1], inferredJSDoc[1])
  /\ pc' = "updated"
  /\ UNCHANGED <<leadingComments, options, inference, existingJSDoc,
                 inferredJSDoc, fileModified, cliPc, files, filePath,
                 nodesLeft, written, exitCode, error, actionPromise>>

\* ... : buildJSDocLines(inferredJSDoc)
Build ==
  /\ pc = "lines"
  /\ inferredJSDoc # None
  /\ ~(IsPresent(existingJSDoc) /\ ~options.overwriteAllJsdoc)
  /\ newJSDocLines' = buildJSDocLines(inferredJSDoc[1])
  /\ pc' = "built"
  /\ UNCHANGED <<leadingComments, options, inference, existingJSDoc,
                 inferredJSDoc, fileModified, cliVars>>

\* if (newJSDocLines.length > 0) { ... fileModified = true }
Replace ==
  /\ pc \in {"updated", "built"}
  /\ Len(newJSDocLines) > 0
  /\ leadingComments' =
       ReplaceComment(leadingComments, CommentBlock(CommentContent(newJSDocLines)))
  /\ fileModified' = TRUE
  /\ pc' = "done"
  /\ UNCHANGED <<options, inference, existingJSDoc, inferredJSDoc,
                 newJSDocLines, cliVars>>

\* newJSDocLines.length > 0 is false
NoLines ==
  /\ pc \in {"updated", "built"}
  /\ Len(newJSDocLines) = 0
  /\ pc' = "done"
  /\ UNCHANGED <<leadingComments, options, inference, existingJSDoc,
                 inferredJSDoc, newJSDocLines, fileModified, cliVars>>

Next ==
  \/ Extract
  \/ SkipExisting
  \/ Infer
  \/ NothingInferred
  \/ Update
  \/ Build
  \/ Replace
  \/ NoLines

Spec == Init /\ [][Next]_vars

\* the loop body for the declarations of ClassCommentInputs
ClassInit ==
  /\ leadingComments \in ClassCommentInputs
  /\ options \in OptionSets
  /\ inference \in ClassInferenceResults
  /\ existingJSDoc = None
  /\ inferredJSDoc = None
  /\ newJSDocLines = <<>>
  /\ fileModified = FALSE
  /\ pc = "extract"
  /\ InsideFileLoop

ClassSpec == ClassInit /\ [][Next]_vars

\* ------------------------------------------------------------------------
\* generateAction, and processFilesWithJSDoc from glob to the last file
\* ------------------------------------------------------------------------

\* commander calls generateAction(patterns, options)
CliInit ==
  /\ options \in CliOptionSets
  /\ leadingComments = None
  /\ inference = None
  /\ existingJSDoc = None
  /\ inferredJSDoc = None
  /\ newJSDocLines = <<>>
  /\ fileModified = FALSE
  /\ pc = "none"
  /\ cliPc = "start"
  /\ files = <<>>
  /\ filePath = ""
  /\ nodesLeft = 0
  /\ written = <<>>
  /\ console = <<>>
  /\ exitCode = None
  /\ error = None
  /\ actionPromise = "pending"

\* handleInitialLogging(patterns, options)
StartGenerate ==
  /\ cliPc = "start"
  /\ console' = console \o handleInitialLogging(options)
  /\ cliPc' = "glob"
  /\ UNCHANGED <<options, nodeVars, files, filePath, nodesLeft, written,
                 exitCode, error, actionPromise>>

\* const files = await glob(...), the 'Found' message and the early return
Glob ==
  /\ cliPc = "glob"
  /\ \E n \in 0..MaxFiles :
       /\ files' = SubSeq(FileOrder, 1, n)
       /\ console' =
            console
              \o <<Log("Found " \o NumberText(n)
                       \o " JavaScript/TypeScript files to process.")>>
              \o (IF n = 0
                  THEN <<Log("No files matching the provided patterns were found.")>>
                  ELSE <<>>)
       /\ cliPc' = IF n = 0 THEN "resolved" ELSE "file"
  /\ UNCHANGED <<options, nodeVars, filePath, nodesLeft, written, exitCode,
                 error, actionPromise>>

\* await glob(...) rejects
GlobRejects ==
  /\ cliPc = "glob"
  /\ error' = Some(GlobError)
  /\ cliPc' = "rejected"
  /\ UNCHANGED <<options, nodeVars, files, filePath, nodesLeft, written,
                 console, exitCode, actionPromise>>

\* the head of the file loop: read, parse, fileModified = false, and the
\* traversal that collects nodesToProcess
ReadFile ==
  /\ cliPc = "file"
  /\ files # <<>>
  /\ filePath' = Head(files)
  /\ files' = Tail(files)
  /\ console' = console \o <<Log("\nProcessing file: " \o Head(files))>>
  /\ \E n \in 0..MaxNodes : nodesLeft' = n
  /\ fileModified' = FALSE
  /\ pc' = "none"
  /\ cliPc' = "nodes"
  /\ UNCHANGED <<options, leadingComments, inference, existingJSDoc,
                 inferredJSDoc, newJSDocLines, written, exitCode, error,
                 actionPromise>>

\* await fs.readFile(...) rejects, or babelParser.parse throws
ReadFileRejects ==
  /\ cliPc = "file"
  /\ files # <<>>
  /\ filePath' = Head(files)
  /\ files' = Tail(files)
  /\ console' = console \o <<Log("\nProcessing file: " \o Head(files))>>
  /\ error' = Some(ReadError)
  /\ cliPc' = "rejected"
  /\ UNCHANGED <<options, nodeVars, nodesLeft, written, exitCode, actionPromise>>

\* for (const path of nodesToProcess): the next declaration, its comments and
\* what inference will yield for it
NextNode ==
  /\ cliPc = "nodes"
  /\ pc \in {"none", "done"}
  /\ nodesLeft > 0
  /\ nodesLeft' = nodesLeft - 1
  /\ leadingComments' \in CliCommentInputs
  /\ inference' \in CliInferenceResults
  /\ existingJSDoc' = None
  /\ inferredJSDoc' = None
  /\ newJSDocLines' = <<>>
  /\ pc' = "extract"
  /\ UNCHANGED <<options, fileModified, cliPc, files, filePath, written,
                 console, exitCode, error, actionPromise>>

NodeError == "Cannot read properties of undefined"

\* NodeThrows without the try/catch around the body
NodeThrows_Uncaught ==
  /\ cliPc = "nodes"
  /\ pc \in {"extract", "checkOnlyNew", "lines"}
  /\ error' = Some(NodeError)
  /\ cliPc' = "rejected"
  /\ UNCHANGED <<options, nodeVars, files, filePath, nodesLeft, written,
                 console, exitCode, actionPromise>>

\* catch (e) inside the loop over nodesToProcess: a call of the body threw
\* before the comment was replaced
NodeThrows ==
  /\ cliPc = "nodes"
  /\ pc \in {"extract", "checkOnlyNew", "lines"}
  /\ console' =
       console \o <<Err("  Skipping node due to unexpected error: " \o NodeError)>>
  /\ pc' = "done"
  /\ UNCHANGED <<options, leadingComments, inference, existingJSDoc,
                 inferredJSDoc, newJSDocLines, fileModified, cliPc, files,
                 filePath, nodesLeft, written, exitCode, error, actionPromise>>

\* NodesDone with the declarations still to be processed not waited for
NodesDone_Early == cliPc = "nodes" /\ pc \in {"none", "done"}

\* every collected declaration of the file has been processed
NodesDone == cliPc = "nodes" /\ pc \in {"none", "done"} /\ nodesLeft = 0

\* WriteFile with options.dryRun not consulted
WriteFile_IgnoresDryRun ==
  /\ NodesDone
  /\ fileModified
  /\ written' = Append(written, filePath)
  /\ console' = console \o <<Log("  Successfully updated " \o filePath)>>
  /\ cliPc' = "file"
  /\ UNCHANGED <<options, nodeVars, files, filePath, nodesLeft, exitCode,
                 error, actionPromise>>

\* fileModified && !options.dryRun: generate, await fs.writeFile(...)
WriteFile ==
  /\ NodesDone
  /\ fileModified /\ ~options.dryRun
  /\ written' = Append(written, filePath)
  /\ console' = console \o <<Log("  Successfully updated " \o filePath)>>
  /\ cliPc' = "file"
  /\ UNCHANGED <<options, nodeVars, files, filePath, nodesLeft, exitCode,
                 error, actionPromise>>

\* await fs.writeFile(...) rejects
WriteFileRejects ==
  /\ NodesDone
  /\ fileModified /\ ~options.dryRun
  /\ error' = Some(WriteError)
  /\ cliPc' = "rejected"
  /\ UNCHANGED <<options, nodeVars, files, filePath, nodesLeft, written,
                 console, exitCode, actionPromise>>

\* fileModified && options.dryRun
DryRunReport ==
  /\ NodesDone
  /\ fileModified /\ options.dryRun
  /\ console' = console \o <<Log("  Would update " \o filePath \o " (Dry Run)")>>
  /\ cliPc' = "file"
  /\ UNCHANGED <<options, nodeVars, files, filePath, nodesLeft, written,
                 exitCode, error, actionPromise>>

\* fileModified is false
NoUpdates ==
  /\ NodesDone
  /\ ~fileModified
  /\ console' = console \o <<Log("  No JSDoc updates needed for " \o filePath)>>
  /\ cliPc' = "file"
  /\ UNCHANGED <<options, nodeVars, files, filePath, nodesLeft, written,
                 exitCode, error, actionPromise>>

\* the file loop is over: processFilesWithJSDoc resolves
Return ==
  /\ cliPc = "file"
  /\ files = <<>>
  /\ cliPc' = "resolved"
  /\ UNCHANGED <<options, nodeVars, files, filePath, nodesLeft, written,
                 console, exitCode, error, actionPromise>>

\* handleFinalLogging(options) after the awaited call
FinalLogging ==
  /\ cliPc = "resolved"
  /\ console' = console \o handleFinalLogging(options)
  /\ cliPc' = "end"
  /\ actionPromise' = "fulfilled"
  /\ UNCHANGED <<options, nodeVars, files, filePath, nodesLeft, written,
                 exitCode, error>>

\* CatchError with process.exitCode left as it is
CatchError_KeepsExitCode ==
  /\ cliPc = "rejected"
  /\ console' = console \o handleError(error[1])
  /\ exitCode' = exitCode
  /\ cliPc' = "end"
  /\ actionPromise' = "fulfilled"
  /\ UNCHANGED <<options, nodeVars, files, filePath, nodesLeft, written, error>>

\* catch (error) { handleError(error) }
CatchError ==
  /\ cliPc = "rejected"
  /\ console' = console \o handleError(error[1])
  /\ exitCode' = Some(1)
  /\ cliPc' = "end"
  /\ actionPromise' = "fulfilled"
  /\ UNCHANGED <<options, nodeVars, files, filePath, nodesLeft, written, error>>

CliNext ==
  \/ StartGenerate
  \/ Glob
  \/ GlobRejects
  \/ ReadFile
  \/ ReadFileRejects
  \/ NextNode
  \/ Extract
  \/ SkipExisting
  \/ Infer
  \/ NothingInferred
  \/ Update
  \/ Build
  \/ Replace
  \/ NoLines
  \/ NodeThrows
  \/ WriteFile
  \/ WriteFileRejects
  \/ DryRunReport
  \/ NoUpdates
  \/ Return
  \/ FinalLogging
  \/ CatchError

CliSpec == CliInit /\ [][CliNext]_vars

\* ------------------------------------------------------------------------
\* Properties
\* ------------------------------------------------------------------------

\* updateJSDocBlock has just produced newJSDocLines from existingJSDoc
Reconciled == pc = "updated"

\* the existing tag entries filed under a managed tag name
ExistingEntries(tagName) == ParseExisting(existingJSDoc[1]).existingTags[tagName]

\* s.replace(fences).trim(), the form in which two examples are compared
NormalizedExample(s) == Trim(StripFences(s))

IsTagLine(line) == StartsWith(line, "@")

\* C1: reconcile is idempotent: applying updateJSDocBlock with the same
\* metadata to its own output returns that output, line for line.
C1_Idempotent ==
  Reconciled => updateJSDocBlock(newJSDocLines, inferredJSDoc[1]) = newJSDocLines

\* the bare lines that precede the first tag line
RECURSIVE LeadingBareLines(_)
LeadingBareLines(lines) ==
  IF lines = <<>> \/ IsTagLine(Trim(Head(lines))) THEN <<>>
  ELSE (IF Trim(Head(lines)) = "" THEN <<>> ELSE <<Trim(Head(lines))>>)
         \o LeadingBareLines(Tail(lines))

\* the description of the existing comment: its bare lines before the first
\* tag line, newline-joined
LeadingDescription == Join(LeadingBareLines(existingJSDoc[1]), "\n")

\* C2: an existing description that is non-empty and is not a cataloged
\* placeholder (the catalog matches by substring) is, verbatim, the first
\* output line, whatever M.description is.
C2_HumanDescriptionKept ==
  (Reconciled /\ LeadingDescription # ""
     /\ ~Includes(LeadingDescription, placeholderDesc))
    => (newJSDocLines # <<>> /\ newJSDocLines[1] = LeadingDescription)

\* C3: when the existing comment has no description or only the placeholder
\* description and M.description is a real text, the output's description line
\* is M.description and no output line is the placeholder.
C3_PlaceholderReplaced ==
  (Reconciled /\ LeadingDescription \in {"", placeholderDesc}
     /\ Truthy(inferredJSDoc[1].description)
     /\ inferredJSDoc[1].description[1] # placeholderDesc)
    => /\ newJSDocLines # <<>>
       /\ newJSDocLines[1] = inferredJSDoc[1].description[1]
       /\ \A i \in 1..Len(newJSDocLines) : newJSDocLines[i] # placeholderDesc

\* the tag names of the lines the managed sections emit
EmittedTagNames ==
  {"class", "augments", "constructor", "param", "returns", "throws", "example"}

IsUnmanagedTagLine(line) ==
  IsTagLine(line) /\ TagNameOf(line) \notin MANAGED_JSDOC_TAGS

\* the existing tag lines outside the managed set, in their original order
UnmanagedLines == SelectSeq(existingJSDoc[1], IsUnmanagedTagLine)

\* C4: the existing tag lines outside the managed set are, unmodified and in
\* their original order, the last lines of the output; every line before them
\* is a description line, a blank or a line of a managed section.
C4_UnmanagedRoundTrip ==
  Reconciled =>
    LET n == Len(newJSDocLines)
        k == Len(UnmanagedLines)
    IN  /\ k <= n
        /\ SubSeq(newJSDocLines, n - k + 1, n) = UnmanagedLines
        /\ \A i \in 1..(n - k) :
             IsTagLine(newJSDocLines[i])
               => TagNameOf(newJSDocLines[i]) \in EmittedTagNames

C4_Witness ==
  /\ Reconciled
  /\ UnmanagedLines = <<"@see https://example.com", "@custom note">>
  /\ HasLength(inferredJSDoc[1].params)
  /\ Len(newJSDocLines) > 4
  /\ newJSDocLines[Len(newJSDocLines)] = "@custom note"

\* the number of output lines that carry the example with normalized content c
ExampleCount(c) ==
  Cardinality({i \in 1..Len(newJSDocLines) :
                 /\ IsTagLine(newJSDocLines[i])
                 /\ TagNameOf(newJSDocLines[i]) = "example"
                 /\ NormalizedExample(TagContentOf(newJSDocLines[i])) = c})

\* C5: an example that is both an existing @example entry and an entry of
\* M.examples (equal after the fences are stripped) is in the output exactly
\* once.
C5_ExampleExactlyOnce ==
  Reconciled =>
    \A i \in 1..Len(ExistingEntries("example")) :
      \A j \in 1..Len(Elems(inferredJSDoc[1].examples)) :
        NormalizedExample(ExistingEntries("example")[i].content)
            = NormalizedExample(inferredJSDoc[1].examples[1][j])
          => ExampleCount(NormalizedExample(inferredJSDoc[1].examples[1][j])) = 1

\* the (type, name) pairs whose per-parameter placeholder the inputs can hold
PlaceholderPairs == {[type |-> ParamName.type, name |-> ParamName.name],
                     [type |-> ParamId.type, name |-> ParamId.name]}

\* content is cataloged filler: a per-parameter, returns or constructor placeholder
IsPlaceholderContent(content) ==
  \/ content \in {placeholderReturnsDesc, constructorDescPlaceholder, placeholderDesc}
  \/ \E pair \in PlaceholderPairs : Includes(content, placeholderParamDesc(pair))

\* the text of an entry after its leading '{type}' annotation, if it has one
DescriptiveText(content) ==
  IF StartsWith(content, "{") /\ Includes(content, "}")
  THEN Trim(Substring(content, IndexOf(content, "}") + 1))
  ELSE content

\* C6: every existing param, returns, throws or example entry whose content is
\* not a placeholder still has its descriptive text in some output line, for
\* every metadata.
C6_HumanEntriesKept ==
  Reconciled =>
    \A tagName \in {"param", "returns", "throws", "example"} :
      \A i \in 1..Len(ExistingEntries(tagName)) :
        LET content == ExistingEntries(tagName)[i].content
        IN  (~IsPlaceholderContent(content) /\ DescriptiveText(content) # "")
              => \E j \in 1..Len(newJSDocLines) :
                   Includes(newJSDocLines[j], DescriptiveText(content))

\* the first doc comment among the declaration's leading comments
FirstDocComment ==
  LET cs == Elems(leadingComments)
  IN  cs[CHOOSE i \in 1..Len(cs) :
           /\ IsJSDocComment(cs[i])
           /\ \A j \in 1..(i - 1) : ~IsJSDocComment(cs[j])]

HasDocComment ==
  \E i \in 1..Len(Elems(leadingComments)) : IsJSDocComment(Elems(leadingComments)[i])

\* C7: a doc comment that normalizes to no lines is reported as absent (null),
\* and the declaration is not routed to updateJSDocBlock.
C7_EmptyCommentIsAbsent ==
  (pc \in {"checkOnlyNew", "lines", "updated", "built"}
     /\ HasDocComment /\ NormalizeComment(FirstDocComment.value) = <<>>)
    => (existingJSDoc = None /\ pc # "updated")

\* no line holds a line break or stands for an undefined element
SingleLines(lines) ==
  \A i \in 1..Len(lines) : ~Includes(lines[i], "\n") /\ lines[i] # UNDEFINED

\* the comment has just been replaced by the serialized newJSDocLines
Replaced == pc = "done" /\ fileModified

\* C8: getJSDocBlocks applied to the comment the serializer wrote for lines
\* l1..ln (none with a line break) returns exactly l1..ln.
C8_ExtractSerializeRoundTrip ==
  (Replaced /\ SingleLines(newJSDocLines))
    => getJSDocBlocks(leadingComments) = Some(newJSDocLines)

\* C9: getJSDocBlocks returns null when the comments are null or empty or none
\* is a block comment starting with '*'; otherwise it returns the normalized
\* lines of the first such comment, whatever comments follow it.
C9_FirstDocCommentSelected ==
  pc = "checkOnlyNew" =>
    IF HasDocComment
    THEN existingJSDoc = Some(NormalizeComment(FirstDocComment.value))
    ELSE existingJSDoc = None

C9_Witness ==
  /\ pc = "checkOnlyNew"
  /\ Len(Elems(leadingComments)) = 2
  /\ IsJSDocComment(leadingComments[1][1])
  /\ IsJSDocComment(leadingComments[1][2])
  /\ NormalizeComment(leadingComments[1][1].value)
       # NormalizeComment(leadingComments[1][2].value)
  /\ existingJSDoc = Some(NormalizeComment(leadingComments[1][1].value))
  /\ existingJSDoc[1] # <<>>

\* content is a '{type}' annotation and nothing else
IsTypeOnly(content) ==
  StartsWith(content, "{") /\ IndexOf(content, "}") = Len(content) - 1

\* C10: when the existing returns tag carries only a type annotation and
\* M.returns has a type other than void, the output holds the returns line
\* built from M's type and M's description.
C10_TypeOnlyReturnsReplaced ==
  (Reconciled
     /\ ExistingEntries("returns") # <<>>
     /\ \A i \in 1..Len(ExistingEntries("returns")) :
          IsTypeOnly(ExistingEntries("returns")[i].content)
     /\ inferredJSDoc[1].returns # None
     /\ inferredJSDoc[1].returns[1].type \notin {"", "void"})
    => \E j \in 1..Len(newJSDocLines) :
         newJSDocLines[j] = "@returns {" \o inferredJSDoc[1].returns[1].type \o "} "
                              \o inferredJSDoc[1].returns[1].description

\* line is one of the output lines
Emitted(line) == \E j \in 1..Len(newJSDocLines) : newJSDocLines[j] = line

\* the output lines of one tag name
EmittedLinesOf(tagName) ==
  LET IsOfTag(line) == IsTagLine(line) /\ TagNameOf(line) = tagName
  IN  SelectSeq(newJSDocLines, IsOfTag)

\* the metadata's parameters
MetaParams == Elems(inferredJSDoc[1].params)

\* the '{type} name' head of a parameter's entry
ParamPrefix(param) == "{" \o param.type \o "} " \o param.name

\* the existing param entries that name the parameter with its type
EntriesFor(param) ==
  LET Names(entry) == Includes(entry.content, ParamPrefix(param))
  IN  SelectSeq(ExistingEntries("param"), Names)

\* C11: when the existing @param line of a metadata parameter (same type and
\* name) carries the placeholder text 'A placeholder description.', the output
\* contains '@param {type} name - <M's description of the parameter>'.
C11_PlaceholderTextReplaced ==
  Reconciled =>
    \A j \in 1..Len(MetaParams) :
      (/\ EntriesFor(MetaParams[j]) # <<>>
       /\ \A i \in 1..Len(EntriesFor(MetaParams[j])) :
            EntriesFor(MetaParams[j])[i].content
              = ParamPrefix(MetaParams[j]) \o " - A placeholder description.")
        => Emitted(CanonicalParamLine(MetaParams[j]))

\* the existing lines and the metadata of Scenario A
ScenarioAExisting ==
  <<"A human description.", "@param {string} name - The string value of name.">>

ScenarioAMeta ==
  DescribedParams("AI text",
                  <<[name |-> "name", type |-> "string",
                     description |-> "The full legal name."]>>)

C13_ScenarioB ==
  (/\ Reconciled
   /\ existingJSDoc[1] = SimpleFunctionBlock
   /\ \E j \in 1..Len(MetaParams) :
        MetaParams[j] = [name |-> "id", type |-> "number",
                         description |-> "The identifier."])
    => /\ Emitted("A simple function.")
       /\ Emitted("@see https://example.com")
       /\ Emitted("@param {number} id - The identifier.")

C13_Witness ==
  /\ Reconciled
  /\ existingJSDoc[1] = SimpleFunctionBlock
  /\ inferredJSDoc[1].description = Some("A simple function with more details.")
  /\ newJSDocLines
       = <<"A simple function.", "", "@param {number} id - The identifier.",
           "@see https://example.com">>

\* buildJSDocLines has just produced newJSDocLines
Built == pc = "built"

\* one line per element of arr, each the prefix followed by the element
Prefixed(prefix, arr) == [i \in 1..Len(arr) |-> prefix \o arr[i]]

\* '@param {type} name - description', one line per parameter
ParamLinesOf(params) ==
  [i \in 1..Len(params) |->
     "@param {" \o params[i].type \o "} " \o params[i].name \o " - "
       \o params[i].description]

\* the lines of the Class variant
ClassVariantLines(M) ==
  <<M.description[1], "@class">>
    \o (IF Truthy(M.extendsClass) THEN <<"@augments " \o M.extendsClass[1]>> ELSE <<>>)
    \o (IF Elems(M.examples) # <<>>
        THEN <<"">> \o Prefixed("@example ", Elems(M.examples))
        ELSE <<>>)
    \o (IF Truthy(M.constructorDescription)
        THEN <<"@constructor " \o M.constructorDescription[1]>>
               \o ParamLinesOf(Elems(M.constructorParams))
        ELSE <<>>)

\* the metadata of Scenario C
ScenarioCMeta ==
  [name |-> Some("User"), functionName |-> None,
   description |-> Some("Represents a user."),
   params |-> None, returns |-> None, throws |-> None, examples |-> None,
   constructorDescription |-> Some("Creates a user."),
   constructorParams |->
     Some(<<[name |-> "id", type |-> "string", description |-> "The user ID."]>>),
   extendsClass |-> None]

\* C14: for a Class variant buildJSDocLines(M) is exactly M.description,
\* '@class', '@augments <extendsClass>' if extendsClass is set, then (examples
\* non-empty) a blank line and one '@example' line per example, then
\* (constructorDescription set) '@constructor <constructorDescription>' and one
\* param line per constructorParams entry in order; Scenario C yields
\* 'Represents a user.', '@class', '@constructor Creates a user.',
\* '@param {string} id - The user ID.'.
C14_FreshClassLines ==
  (Built /\ Truthy(inferredJSDoc[1].name) /\ inferredJSDoc[1].description # None)
    => /\ newJSDocLines = ClassVariantLines(inferredJSDoc[1])
       /\ inferredJSDoc[1] = ScenarioCMeta
            => newJSDocLines
                 = <<"Represents a user.", "@class", "@constructor Creates a user.",
                     "@param {string} id - The user ID.">>

C14_Witness ==
  /\ Built
  /\ inferredJSDoc[1] = ScenarioCMeta
  /\ existingJSDoc = None
  /\ newJSDocLines
       = <<"Represents a user.", "@class", "@constructor Creates a user.",
           "@param {string} id - The user ID.">>

\* the lines of the Function/Method variant
FunctionVariantLines(M) ==
  <<M.description[1]>>
    \o (IF Elems(M.params) # <<>> THEN <<"">> \o ParamLinesOf(Elems(M.params)) ELSE <<>>)
    \o (IF M.returns # None /\ M.returns[1].type \notin {"", "void"}
        THEN <<"@returns {" \o M.returns[1].type \o "} " \o M.returns[1].description>>
        ELSE <<>>)
    \o [i \in 1..Len(Elems(M.throws)) |->
          "@throws {Error} " \o Elems(M.throws)[i].description]
    \o Prefixed("@example ", Elems(M.examples))

\* C15: for a Function/Method variant buildJSDocLines(M) is exactly
\* M.description, then (params non-empty) a blank line and one param line per
\* parameter in metadata order, then the returns line only when returns.type is
\* present and not 'void', then one '@throws {Error}' line per throws entry,
\* then one '@example' line per example, whatever the existing comment holds.
C15_FreshFunctionLines ==
  (Built /\ ~Truthy(inferredJSDoc[1].name) /\ inferredJSDoc[1].description # None)
    => newJSDocLines = FunctionVariantLines(inferredJSDoc[1])

C15_Witness ==
  /\ Built
  /\ IsPresent(existingJSDoc) /\ existingJSDoc[1] # <<>>
  /\ newJSDocLines
       = <<"AI text.", "", "@param {number} id - The identifier.",
           "@returns {Promise<void>} No return value.",
           "@throws {Error} When it fails.",
           "@example " \o FENCE \o "javascript\nrun()\n" \o FENCE>>

\* some output line carries the tag
EmitsTag(tagName) == EmittedLinesOf(tagName) # <<>>

\* C16: when description, params, returns, throws or examples is absent from
\* M, updateJSDocBlock and buildJSDocLines return an array whose elements are
\* all strings and that holds no line for the absent field.
C16_AbsentFieldsOmitted ==
  (Reconciled \/ Built) =>
    /\ \A i \in 1..Len(newJSDocLines) : newJSDocLines[i] # UNDEFINED
    /\ (inferredJSDoc[1].params = None /\ ~Truthy(inferredJSDoc[1].name))
         => ~EmitsTag("param")
    /\ inferredJSDoc[1].returns = None => ~EmitsTag("returns")
    /\ inferredJSDoc[1].throws = None => ~EmitsTag("throws")
    /\ inferredJSDoc[1].examples = None => ~EmitsTag("example")

\* the new comment has been put on the declaration
Attached == pc = "done" /\ newJSDocLines # <<>>

InLoopBody == pc \in {"extract", "checkOnlyNew", "lines", "updated", "built"}

Called(method, text) ==
  \E i \in 1..Len(console) : console[i] = [method |-> method, text |-> text]

Ended == cliPc = "end"

\* what generateAction does when processFilesWithJSDoc rejects
ErrorHandled ==
  /\ actionPromise = "fulfilled"
  /\ Called("error", ErrorHeader)
  /\ Called("error", error[1])
  /\ exitCode = Some(1)
  /\ ~Called("log", CompleteMessage)

\* the completion message is logged, and after every message of the processing
CompletionLogged ==
  /\ Called("log", CompleteMessage)
  /\ \A i \in 1..Len(console) :
       console[i] = Log(CompleteMessage)
         => \A j \in (i + 1)..Len(console) : console[j] = Log(DryRunReminder)

\* C20 as stated: generateAction never rejects; when processFilesWithJSDoc
\* rejects it logs the error header and the error, sets process.exitCode to 1
\* and does not log the completion message; when processing succeeds the
\* completion message is logged after the processing and exitCode is not 1.
C20_ErrorHandledCompletionLogged ==
  /\ actionPromise # "rejected"
  /\ Ended =>
       IF error # None THEN ErrorHandled
       ELSE CompletionLogged /\ exitCode # Some(1)

\* C20, amended: as stated, except that a successful run logs the completion
\* message only when the quiet option is not set; with quiet set it logs no
\* completion message.
C20_CompletionLoggedUnlessQuiet ==
  /\ actionPromise # "rejected"
  /\ Ended =>
       IF error # None THEN ErrorHandled
       ELSE /\ ~options.quiet => CompletionLogged
            /\ options.quiet => ~Called("log", CompleteMessage)
            /\ exitCode # Some(1)

C20_Witness ==
  /\ Ended
  /\ error = Some(WriteError)
  /\ written = <<"a.js">>
  /\ ~options.quiet
  /\ exitCode = Some(1)
  /\ console[Len(console)] = Err(WriteError)
  /\ actionPromise = "fulfilled"

\* the tag names the engine governs: the managed names and the auxiliary
\* names of a class
ManagedTagSet == MANAGED_JSDOC_TAGS \cup {"constructor", "augments", "extends"}

\* the trimmed existing lines that are tag lines
ExistingTagLines ==
  LET TrimmedTag(line) == IsTagLine(Trim(line))
  IN  MapSeq(Trim, SelectSeq(existingJSDoc[1], TrimmedTag))

\* how many existing tag lines carry the tag name
ExistingLinesNamed(tagName) ==
  Cardinality({i \in 1..Len(ExistingTagLines) :
                 TagNameOf(ExistingTagLines[i]) = tagName})

\* how many warnings about the tag name the console holds
WarningsNaming(tagName) ==
  Cardinality({i \in 1..Len(console) :
                 console[i] = UnrecognizedTagWarning(tagName, inferredJSDoc[1])})

\* C21: every existing tag line whose name is neither managed nor in the known
\* vocabulary draws one warning and is kept in the output; a name that is
\* managed or known (the alias 'return' included) draws no warning.
C21_WarnsUnknownTagsOnly ==
  Reconciled =>
    \A i \in 1..Len(ExistingTagLines) :
      LET line == ExistingTagLines[i]
          tagName == TagNameOf(line)
      IN  IF tagName \notin ManagedTagSet \cup VALID_JSDOC_TAGS
          THEN /\ WarningsNaming(tagName) = ExistingLinesNamed(tagName)
               /\ Emitted(line)
          ELSE WarningsNaming(tagName) = 0

\* the output lines that are neither tag lines nor blank
EmittedBareLines ==
  LET Bare(line) == line # "" /\ ~IsTagLine(line)
  IN  SelectSeq(newJSDocLines, Bare)

\* C22: only the bare lines before the first tag line make up the existing
\* description: the description the reconcile compares is their join, and a
\* bare line after a tag line is no part of a description it emits.
C22_DescriptionBeforeFirstTag ==
  Reconciled =>
    /\ ParseExisting(existingJSDoc[1]).mainDescription = LeadingDescription
    /\ \A i \in 1..Len(EmittedBareLines) :
         \/ EmittedBareLines[i] = LeadingDescription
         \/ Some(EmittedBareLines[i]) = inferredJSDoc[1].description

\* the @returns lines among lines
ReturnsLinesOf(lines) ==
  LET IsReturns(line) == IsTagLine(line) /\ TagNameOf(line) = "returns"
  IN  SelectSeq(lines, IsReturns)

\* the existing returns entries that carry a description other than the
\* placeholder
DescribedReturns ==
  LET Described(entry) ==
        DescriptiveText(entry.content) \notin {"", placeholderReturnsDesc}
  IN  SelectSeq(ExistingEntries("returns"), Described)

\* C23: when M.returns has a type other than void and an existing returns
\* entry carries a description, the output holds exactly one returns line: M's
\* type as its single '{type}' annotation, followed by the existing description;
\* reconciling the output again yields the same line.
C23_ReturnsTypeWithExistingText ==
  (Reconciled
     /\ inferredJSDoc[1].returns # None
     /\ inferredJSDoc[1].returns[1].type \notin {"", "void"}
     /\ DescribedReturns # <<>>)
    => LET line == "@returns {" \o inferredJSDoc[1].returns[1].type \o "} "
                     \o DescriptiveText(DescribedReturns[1].content)
       IN  /\ ReturnsLinesOf(newJSDocLines) = <<line>>
           /\ ReturnsLinesOf(updateJSDocBlock(newJSDocLines, inferredJSDoc[1]))
                = <<line>>

\* the metadata describes a function: it has no class name
FunctionVariant == ~Truthy(inferredJSDoc[1].name)

\* the existing param entries written '{type} name - d' for the parameter
DashedEntriesFor(param) ==
  LET Dashed(entry) == StartsWith(entry.content, ParamPrefix(param) \o " - ")
  IN  SelectSeq(ExistingEntries("param"), Dashed)

\* the d of an entry written '{type} name - d'
DashedText(param, entry) ==
  Substring(entry.content, Len(ParamPrefix(param)) + 3)

\* C24: for a function the output holds exactly one @param line per metadata
\* parameter, in metadata order; where the existing comment has
\* '{type} name - d' for the parameter and d is not its placeholder, that line
\* is '@param {type} name - d' with d unchanged, also when the name occurs
\* inside the type text.
C24_OneParamLinePerParameter ==
  (Reconciled /\ FunctionVariant) =>
    /\ Len(EmittedLinesOf("param")) = Len(MetaParams)
    /\ \A j \in 1..Len(MetaParams) :
         LET param == MetaParams[j]
             line == EmittedLinesOf("param")[j]
         IN  /\ StartsWith(line, "@param " \o ParamPrefix(param) \o " - ")
             /\ (/\ DashedEntriesFor(param) # <<>>
                 /\ ~Includes(DashedEntriesFor(param)[1].content,
                              placeholderParamDesc(param)))
                  => line = "@param " \o ParamPrefix(param) \o " - "
                              \o DashedText(param, DashedEntriesFor(param)[1])

\* the output opens with a description line
DescriptionEmitted ==
  /\ newJSDocLines # <<>>
  /\ newJSDocLines[1] # ""
  /\ ~IsTagLine(newJSDocLines[1])

\* C25: an emitted description line is directly followed by exactly one blank
\* line if and only if a further line is emitted after it; the output never
\* ends with a blank line, and no tag line directly follows the description.
C25_BlankAfterDescription ==
  Reconciled =>
    LET n == Len(newJSDocLines)
    IN  /\ n > 0 => newJSDocLines[n] # ""
        /\ (DescriptionEmitted /\ n > 1)
             => /\ newJSDocLines[2] = ""
                /\ n > 2
                /\ newJSDocLines[3] # ""

\* the inheritance lines among lines
InheritanceLinesOf(lines) ==
  LET IsInheritance(line) ==
        IsTagLine(line) /\ TagNameOf(line) \in {"augments", "extends"}
  IN  SelectSeq(lines, IsInheritance)

\* the existing inheritance lines that name M.extendsClass
MatchingInheritanceLines ==
  LET Matches(line) == TagContentOf(line) = inferredJSDoc[1].extendsClass[1]
  IN  SelectSeq(InheritanceLinesOf(ExistingTagLines), Matches)

\* C26: for a class with M.extendsClass, an existing augments or extends line
\* that names the same class is reused as it stands in place of the canonical
\* line, so the output holds exactly one inheritance line; without such a line
\* the output holds the canonical '@augments <extendsClass>'.
C26_InheritanceLineReused ==
  (Reconciled /\ ~FunctionVariant /\ Truthy(inferredJSDoc[1].extendsClass)) =>
    IF MatchingInheritanceLines # <<>>
    THEN InheritanceLinesOf(newJSDocLines) = <<MatchingInheritanceLines[1]>>
    ELSE Emitted("@augments " \o inferredJSDoc[1].extendsClass[1])

\* the existing @constructor lines
ExistingConstructorLines ==
  LET IsConstructor(line) == TagNameOf(line) = "constructor"
  IN  SelectSeq(ExistingTagLines, IsConstructor)

\* those that carry a text other than the constructor placeholder
HumanConstructorLines ==
  LET Human(line) == TagContentOf(line) \notin {"", constructorDescPlaceholder}
  IN  SelectSeq(ExistingConstructorLines, Human)

\* C27: when M.constructorDescription is set the output holds at most one
\* @constructor line: the text of an existing entry that is no placeholder
\* comes first, then M.constructorDescription unless it is the placeholder,
\* then the existing entry's original line.
C27_OneConstructorLine ==
  (Reconciled /\ Truthy(inferredJSDoc[1].constructorDescription)) =>
    LET lines == EmittedLinesOf("constructor")
        description == inferredJSDoc[1].constructorDescription[1]
    IN  /\ Len(lines) <= 1
        /\ IF HumanConstructorLines # <<>>
           THEN lines = <<"@constructor " \o TagContentOf(HumanConstructorLines[1])>>
           ELSE IF description # constructorDescPlaceholder
           THEN ExistingConstructorLines = <<>>
                  => lines = <<"@constructor " \o description>>
           ELSE IF ExistingConstructorLines # <<>>
           THEN lines = <<ExistingConstructorLines[1]>>
           ELSE lines = <<>>

\* the existing param entries that open with the parameter's '{type} name'
PrefixedEntriesFor(param) ==
  LET Opens(entry) == StartsWith(entry.content, ParamPrefix(param))
  IN  SelectSeq(ExistingEntries("param"), Opens)

\* the text of such an entry after '{type} name', without its leading dash
TextAfterPrefix(param, entry) ==
  LET rest == Trim(Substring(entry.content, Len(ParamPrefix(param))))
  IN  IF StartsWith(rest, "-") THEN Trim(Substring(rest, 1)) ELSE rest

\* C28: with M.constructorDescription set, each constructorParams entry whose
\* existing param entry holds the cataloged placeholder is emitted as the
\* canonical line with M's description; one whose existing entry holds another
\* text d is emitted as the canonical '{type} name' joined with d.
C28_ConstructorParamLines ==
  (Reconciled /\ Truthy(inferredJSDoc[1].constructorDescription)) =>
    \A j \in 1..Len(Elems(inferredJSDoc[1].constructorParams)) :
      LET param == Elems(inferredJSDoc[1].constructorParams)[j]
          head == "@param " \o ParamPrefix(param)
      IN  PrefixedEntriesFor(param) # <<>> =>
            LET d == TextAfterPrefix(param, PrefixedEntriesFor(param)[1])
            IN  IF d = placeholderParamDesc(param)
                THEN Emitted(head \o " - " \o param.description)
                ELSE Emitted(head \o " - " \o d) \/ Emitted(head \o " " \o d)

\* the reports the file loop makes about the file once its check is made
FileReports ==
  {Log("  Successfully updated " \o filePath),
   Log("  Would update " \o filePath \o " (Dry Run)"),
   Log("  No JSDoc updates needed for " \o filePath)}

\* this step checks the file: it reports on it, writes it or leaves its
\* declarations behind
ChecksFile ==
  \/ written' # written
  \/ /\ Len(console') = Len(console) + 1
     /\ console'[Len(console')] \in FileReports
  \/ cliPc = "nodes" /\ cliPc' # "nodes"

\* this step replaces the comment of the declaration at hand
UpdatesDeclaration ==
  pc \in {"updated", "built"} /\ leadingComments' # leadingComments

SkippingNode == Err("  Skipping node due to unexpected error: " \o NodeError)

\* the files reported as being processed, in the order of the reports
ProcessedFiles ==
  LET Mentioned(path) ==
        \E i \in 1..Len(console) : console[i] = Log("\nProcessing file: " \o path)
  IN  SelectSeq(FileOrder, Mentioned)

\* how many files glob is reported to have found
FoundCount ==
  CHOOSE n \in 0..Len(FileOrder) :
    \E i \in 1..Len(console) :
      console[i] = Log("Found " \o NumberText(n)
                         \o " JavaScript/TypeScript files to process.")

====
